---- MODULE Spec2Model ----
(***************************************************************************)
(* A model of pepper: a lexer (src/src/lexer.rs) that turns a text into a  *)
(* token sequence and a recursive-descent parser (src/src/parser.rs) that  *)
(* turns the token sequence into a Value tree.                             *)
(*                                                                         *)
(* A text is a sequence of characters; a character is a one-character      *)
(* string, except the two characters outside ASCII used here, which are    *)
(* written by their code point.  The lexer's cursor is a BYTE offset into  *)
(* the UTF-8 encoding of the text, so the model keeps the encoded width of *)
(* every character.                                                        *)
(***************************************************************************)
EXTENDS Naturals, Integers, Sequences, FiniteSets, TLC

VARIABLES input, index, line, col, tokens, lexed, lexErr,
          pc, pos, stack, ret, result

lexVars == <<index, line, col, tokens, lexed, lexErr>>
parseVars == <<pc, pos, stack, ret, result>>
vars == <<input, index, line, col, tokens, lexed, lexErr, pc, pos, stack, ret, result>>

----------------------------------------------------------------------------
(* Bounds of the model.                                                   *)

\* the number of pieces an input text of Spec is made of
MaxPieces == 3
\* the number of pieces an input text of SpecLex is made of
MaxLexPieces == 4
\* the number of tokens of a token sequence of SpecParse
MaxToks == 5
MaxLivePieces == 3

----------------------------------------------------------------------------
(* Characters and their UTF-8 encoding.                                   *)

\* U+00E9 (e acute) is encoded in two bytes, U+20AC (euro sign) in three.
EAcute == "U+00E9"
Euro == "U+20AC"

Utf8Len(ch) == IF ch = EAcute THEN 2 ELSE IF ch = Euro THEN 3 ELSE 1

RECURSIVE ByteLen(_)
ByteLen(s) == IF s = <<>> THEN 0 ELSE Utf8Len(Head(s)) + ByteLen(Tail(s))

\* the number of characters of s that end at or before byte offset i
RECURSIVE CharsWithin(_, _)
CharsWithin(s, i) ==
    IF s = <<>> \/ Utf8Len(Head(s)) > i THEN 0
    ELSE 1 + CharsWithin(Tail(s), i - Utf8Len(Head(s)))

\* the number of characters before byte offset i (a character boundary)
CharIdx(s, i) == CharsWithin(s, i)

\* whether byte offset i lies on a character boundary of text s
IsCharBoundary(s, i) == ByteLen(SubSeq(s, 1, CharsWithin(s, i))) = i

\* input[i..]: the characters from byte offset i on
CharsFrom(s, i) == SubSeq(s, CharIdx(s, i) + 1, Len(s))

\* input[a..b]
ByteSlice(s, a, b) == SubSeq(s, CharIdx(s, a) + 1, CharIdx(s, b))

WHITESPACE == {"\t", "\r", " ", "\n"}
PUNCTUATION == {"(", ")", "[", "]", "{", "}", ":", ","}
NUMBER_CHAR == {"-", "+", ".", "e", "E"}
Digits == {"0", "1", "2", "3", "4", "5", "6", "7", "8", "9"}

DigitVal(ch) ==
    CASE ch = "0" -> 0 [] ch = "1" -> 1 [] ch = "2" -> 2 [] ch = "3" -> 3
      [] ch = "4" -> 4 [] ch = "5" -> 5 [] ch = "6" -> 6 [] ch = "7" -> 7
      [] ch = "8" -> 8 [] ch = "9" -> 9

TrueLit == <<"t", "r", "u", "e">>
FalseLit == <<"f", "a", "l", "s", "e">>
NullLit == <<"n", "u", "l", "l">>

----------------------------------------------------------------------------
(* Tokens (lexer.rs, enum Token).                                          *)

TString(s) == [t |-> "String", s |-> s]
TNumber(n) == [t |-> "Number", n |-> n]
TBool(b) == [t |-> "Bool", b |-> b]
TNull == [t |-> "Null"]
TPunct(c) == [t |-> "Punct", c |-> c]

----------------------------------------------------------------------------
(* f64::from_str on a run of digits and - + . e E.  The accepted texts are *)
(*   [+-] ( d+ | d+ . d* | d* . d+ ) ( [eE] [+-] d+ )                      *)
(* with the sign and the exponent optional.  The value is kept as the      *)
(* decimal it denotes, sign, mantissa without trailing zeros and exponent  *)
(* of ten, so that two texts denote the same number exactly when their     *)
(* values are equal; a magnitude beyond the range of a double becomes      *)
(* infinity or zero as in the conversion.                                  *)

RECURSIVE DecimalDigits(_)
DecimalDigits(n) == IF n < 10 THEN 1 ELSE 1 + DecimalDigits(n \div 10)

RECURSIVE Normalise(_, _, _)
Normalise(neg, m, e) ==
    IF m = 0 THEN [neg |-> FALSE, m |-> 0, e |-> 0, inf |-> FALSE]
    ELSE IF m % 10 = 0 THEN Normalise(neg, m \div 10, e + 1)
    ELSE IF e + DecimalDigits(m) > 309 THEN [neg |-> neg, m |-> 0, e |-> 0, inf |-> TRUE]
    ELSE IF e + DecimalDigits(m) < -323 THEN [neg |-> FALSE, m |-> 0, e |-> 0, inf |-> FALSE]
    ELSE [neg |-> neg, m |-> m, e |-> e, inf |-> FALSE]

NoNumber == [ok |-> FALSE, n |-> Normalise(FALSE, 0, 0)]

\* what the conversion has read: the sign, the digits of the mantissa as a
\* number (m), how many there are (nd), how many follow the point (nf), and
\* the exponent's sign, value and number of digits
FloatAcc == [neg |-> FALSE, m |-> 0, nd |-> 0, nf |-> 0,
             eneg |-> FALSE, ev |-> 0, ne |-> 0]

RECURSIVE float_scan(_, _, _)
float_scan(chars, q, a) ==
    IF chars = <<>> THEN [q |-> q, a |-> a]
    ELSE LET c == Head(chars) IN
         CASE q = "start" /\ c \in {"+", "-"} ->
                float_scan(Tail(chars), "int", [a EXCEPT !.neg = (c = "-")])
           [] q \in {"start", "int"} /\ c \in Digits ->
                float_scan(Tail(chars), "int",
                           [a EXCEPT !.m = @ * 10 + DigitVal(c), !.nd = @ + 1])
           [] q \in {"start", "int"} /\ c = "." ->
                float_scan(Tail(chars), "frac", a)
           [] q = "frac" /\ c \in Digits ->
                float_scan(Tail(chars), "frac",
                           [a EXCEPT !.m = @ * 10 + DigitVal(c), !.nd = @ + 1,
                                     !.nf = @ + 1])
           [] q \in {"int", "frac"} /\ c \in {"e", "E"} /\ a.nd >= 1 ->
                float_scan(Tail(chars), "e", a)
           [] q = "e" /\ c \in {"+", "-"} ->
                float_scan(Tail(chars), "exp", [a EXCEPT !.eneg = (c = "-")])
           [] q \in {"e", "exp"} /\ c \in Digits ->
                float_scan(Tail(chars), "exp",
                           [a EXCEPT !.ev = @ * 10 + DigitVal(c), !.ne = @ + 1])
           [] OTHER -> [q |-> "bad", a |-> a]

FloatValid(r) ==
    \/ r.q \in {"int", "frac"} /\ r.a.nd >= 1
    \/ r.q = "exp" /\ r.a.ne >= 1

FloatValue(a) ==
    Normalise(a.neg, a.m, (IF a.eneg THEN 0 - a.ev ELSE a.ev) - a.nf)

from_str(s) ==
    IF FloatValid(float_scan(s, "start", FloatAcc))
    THEN [ok |-> TRUE, n |-> FloatValue(float_scan(s, "start", FloatAcc).a)]
    ELSE NoNumber

----------------------------------------------------------------------------
(* The lexer (lexer.rs, struct Lexer).  A lexer state is the record of its *)
(* fields, the tokens pushed so far and how lex() has ended, if it has.    *)

LexState(i, l, c, ts, how, e) ==
    [index |-> i, line |-> l, col |-> c, tokens |-> ts, lexed |-> how, err |-> e]

NoLexErr == [text |-> <<>>, line |-> 0, col |-> 0]

\* Lexer::new()
NewLexer == LexState(0, 0, 0, <<>>, "running", NoLexErr)

Panicked(st) == [st EXCEPT !.lexed = "panic"]

\* input[i..] panics unless i is a character boundary of the text
SliceOk(in, i) == i <= ByteLen(in) /\ IsCharBoundary(in, i)

RECURSIVE ws_loop(_, _)
ws_loop(chars, st) ==
    IF chars # <<>> /\ Head(chars) \in WHITESPACE
    THEN ws_loop(Tail(chars),
                 [st EXCEPT !.line = IF Head(chars) = "\n" THEN @ + 1 ELSE @,
                            !.col = IF Head(chars) = "\n" THEN 0 ELSE @ + 1,
                            !.index = @ + 1])
    ELSE st

\* the state after eat_whitespace; it returns true exactly when index moved
eat_whitespace(in, st) == ws_loop(CharsFrom(in, st.index), st)

\* the for loop of lex_string: the content and the number of characters read
RECURSIVE string_loop(_, _, _, _)
string_loop(chars, s, escape, n) ==
    IF chars = <<>> THEN [s |-> s, n |-> n]
    ELSE LET ch == Head(chars) IN
         IF escape THEN string_loop(Tail(chars), Append(s, ch), FALSE, n + 1)
         ELSE IF ch = "\\" THEN string_loop(Tail(chars), Append(s, ch), TRUE, n + 1)
         ELSE IF ch = "\"" THEN [s |-> s, n |-> n + 1]
         ELSE string_loop(Tail(chars), Append(s, ch), FALSE, n + 1)

\* lex_string, were it to drop the backslash of an escape
lex_string_unescaped(in, st) ==
    LET chars == CharsFrom(in, st.index) IN
    IF chars # <<>> /\ Head(chars) = "\""
    THEN LET r == string_loop(Tail(chars), <<>>, FALSE, 0) IN
         [some |-> TRUE, s |-> SelectSeq(r.s, LAMBDA c : c # "\\"),
          st |-> [st EXCEPT !.index = @ + 1 + r.n, !.col = @ + 1 + r.n]]
    ELSE [some |-> FALSE, s |-> <<>>, st |-> st]

lex_string(in, st) ==
    LET chars == CharsFrom(in, st.index) IN
    IF chars # <<>> /\ Head(chars) = "\""
    THEN LET r == string_loop(Tail(chars), <<>>, FALSE, 0) IN
         [some |-> TRUE, s |-> r.s,
          st |-> [st EXCEPT !.index = @ + 1 + r.n, !.col = @ + 1 + r.n]]
    ELSE [some |-> FALSE, s |-> <<>>, st |-> st]

RECURSIVE NumberRunLen(_)
NumberRunLen(chars) ==
    IF chars # <<>> /\ (Head(chars) \in Digits \/ Head(chars) \in NUMBER_CHAR)
    THEN 1 + NumberRunLen(Tail(chars)) ELSE 0

\* the run of number characters lex_number collects at index
NumberRun(in, i) ==
    LET chars == CharsFrom(in, i) IN SubSeq(chars, 1, NumberRunLen(chars))

\* lex_number, were it to take 0.0 for a run that does not decode
lex_number_or_zero(in, st) ==
    LET s == NumberRun(in, st.index)
        d == from_str(s)
        st2 == [st EXCEPT !.index = @ + Len(s), !.col = @ + Len(s)]
    IN  IF s = <<>> THEN [some |-> FALSE, n |-> NoNumber.n, st |-> st]
        ELSE [some |-> TRUE, n |-> d.n, st |-> st2]

lex_number(in, st) ==
    LET s == NumberRun(in, st.index)
        d == from_str(s)
        st2 == [st EXCEPT !.index = @ + Len(s), !.col = @ + Len(s)]
    IN  IF s = <<>> THEN [some |-> FALSE, n |-> NoNumber.n, st |-> st]
        ELSE IF d.ok THEN [some |-> TRUE, n |-> d.n, st |-> st2]
        ELSE [some |-> FALSE, n |-> NoNumber.n, st |-> Panicked(st2)]

\* input[index..].len() >= len && &input[index..index + len] == lit; the slice
\* panics when index + len is inside a character
Matches(in, i, lit) ==
    IF ByteLen(in) - i >= Len(lit)
    THEN IF IsCharBoundary(in, i + Len(lit))
         THEN IF ByteSlice(in, i, i + Len(lit)) = lit THEN "yes" ELSE "no"
         ELSE "panic"
    ELSE "no"

lex_boolean(in, st) ==
    LET t == Matches(in, st.index, TrueLit)
        f == Matches(in, st.index, FalseLit)
    IN  IF t = "panic" THEN [some |-> FALSE, b |-> FALSE, st |-> Panicked(st)]
        ELSE IF t = "yes"
        THEN [some |-> TRUE, b |-> TRUE,
              st |-> [st EXCEPT !.index = @ + Len(TrueLit), !.col = @ + Len(TrueLit)]]
        ELSE IF f = "panic" THEN [some |-> FALSE, b |-> FALSE, st |-> Panicked(st)]
        ELSE IF f = "yes"
        THEN [some |-> TRUE, b |-> FALSE,
              st |-> [st EXCEPT !.index = @ + Len(FalseLit), !.col = @ + Len(FalseLit)]]
        ELSE [some |-> FALSE, b |-> FALSE, st |-> st]

lex_null(in, st) ==
    LET m == Matches(in, st.index, NullLit) IN
    IF m = "panic" THEN [some |-> FALSE, st |-> Panicked(st)]
    ELSE IF m = "yes"
    THEN [some |-> TRUE,
          st |-> [st EXCEPT !.index = @ + Len(NullLit), !.col = @ + Len(NullLit)]]
    ELSE [some |-> FALSE, st |-> st]

lex_punct(in, st) ==
    LET chars == CharsFrom(in, st.index) IN
    IF chars # <<>> /\ Head(chars) \in PUNCTUATION
    THEN [some |-> TRUE, c |-> Head(chars),
          st |-> [st EXCEPT !.index = @ + 1, !.col = @ + 1]]
    ELSE [some |-> FALSE, c |-> " ", st |-> st]

\* str::lines(): the text split at "\n", a "\r" before the "\n" dropped, and
\* no last line for a text that ends in "\n"
RECURSIVE SplitLines(_, _, _)
SplitLines(chars, cur, acc) ==
    IF chars = <<>> THEN (IF cur = <<>> THEN acc ELSE Append(acc, cur))
    ELSE IF Head(chars) = "\n"
    THEN SplitLines(Tail(chars), <<>>,
                    Append(acc, IF cur # <<>> /\ cur[Len(cur)] = "\r"
                                THEN SubSeq(cur, 1, Len(cur) - 1) ELSE cur))
    ELSE SplitLines(Tail(chars), Append(cur, Head(chars)), acc)

Lines(in) == SplitLines(in, <<>>, <<>>)

\* the Error lex() builds at an unrecognized character
lex_error(in, st) ==
    IF st.line < Len(Lines(in))
    THEN [st EXCEPT !.lexed = "err",
                    !.err = [text |-> Lines(in)[st.line + 1],
                             line |-> DecimalDigits(st.col + 1) + 1,
                             col |-> st.col]]
    ELSE Panicked(st)

Push(st, tok) == [st EXCEPT !.tokens = Append(@, tok)]

\* which branch one iteration of the loop of lex() takes
Branch(in, st) ==
    IF ~(st.index < ByteLen(in)) THEN "done"
    ELSE IF ~SliceOk(in, st.index) THEN "slice"
    ELSE IF eat_whitespace(in, st).index # st.index THEN "whitespace"
    ELSE IF lex_string(in, st).some THEN "string"
    ELSE IF NumberRun(in, st.index) # <<>> THEN "number"
    ELSE IF lex_boolean(in, st).some \/ lex_boolean(in, st).st.lexed = "panic" THEN "boolean"
    ELSE IF lex_null(in, st).some \/ lex_null(in, st).st.lexed = "panic" THEN "null"
    ELSE IF lex_punct(in, st).some THEN "punct"
    ELSE "error"

\* one iteration of the loop of lex(), or its return
lex_iter(in, st) ==
    LET b == Branch(in, st) IN
    CASE b = "done" -> [st EXCEPT !.lexed = "ok"]
      [] b = "slice" -> Panicked(st)
      [] b = "whitespace" -> eat_whitespace(in, st)
      [] b = "string" -> Push(lex_string(in, st).st, TString(lex_string(in, st).s))
      [] b = "number" ->
            LET r == lex_number(in, st) IN
            IF r.some THEN Push(r.st, TNumber(r.n)) ELSE r.st
      [] b = "boolean" ->
            LET r == lex_boolean(in, st) IN
            IF r.some THEN Push(r.st, TBool(r.b)) ELSE r.st
      [] b = "null" ->
            LET r == lex_null(in, st) IN
            IF r.some THEN Push(r.st, TNull) ELSE r.st
      [] b = "punct" -> Push(lex_punct(in, st).st, TPunct(lex_punct(in, st).c))
      [] b = "error" -> lex_error(in, st)

\* lex(): the iterations to the end (each iteration is evaluated once, as the
\* one element of a set)
RECURSIVE lex(_, _)
lex(in, st) ==
    IF st.lexed # "running" THEN st
    ELSE CHOOSE r \in {lex(in, nx) : nx \in {lex_iter(in, st)}} : TRUE

LexNow == LexState(index, line, col, tokens, lexed, lexErr)

SetLex(st) ==
    /\ index' = st.index
    /\ line' = st.line
    /\ col' = st.col
    /\ tokens' = st.tokens
    /\ lexed' = st.lexed
    /\ lexErr' = st.err

\* eat_whitespace (or the panic of its slice input[index..])
EatWhitespace ==
    /\ lexed = "running"
    /\ Branch(input, LexNow) \in {"whitespace", "slice"}
    /\ SetLex(lex_iter(input, LexNow))
    /\ UNCHANGED <<input, pc, pos, stack, ret, result>>

LexString ==
    /\ lexed = "running"
    /\ Branch(input, LexNow) = "string"
    /\ SetLex(lex_iter(input, LexNow))
    /\ UNCHANGED <<input, pc, pos, stack, ret, result>>

LexNumber ==
    /\ lexed = "running"
    /\ Branch(input, LexNow) = "number"
    /\ SetLex(lex_iter(input, LexNow))
    /\ UNCHANGED <<input, pc, pos, stack, ret, result>>

LexBoolean ==
    /\ lexed = "running"
    /\ Branch(input, LexNow) = "boolean"
    /\ SetLex(lex_iter(input, LexNow))
    /\ UNCHANGED <<input, pc, pos, stack, ret, result>>

LexNull ==
    /\ lexed = "running"
    /\ Branch(input, LexNow) = "null"
    /\ SetLex(lex_iter(input, LexNow))
    /\ UNCHANGED <<input, pc, pos, stack, ret, result>>

LexPunct ==
    /\ lexed = "running"
    /\ Branch(input, LexNow) = "punct"
    /\ SetLex(lex_iter(input, LexNow))
    /\ UNCHANGED <<input, pc, pos, stack, ret, result>>

\* no lexeme starts here: lex() returns Err
LexError ==
    /\ lexed = "running"
    /\ Branch(input, LexNow) = "error"
    /\ SetLex(lex_iter(input, LexNow))
    /\ UNCHANGED <<input, pc, pos, stack, ret, result>>

\* index has reached the end: lex() returns Ok(tokens)
LexDone ==
    /\ lexed = "running"
    /\ Branch(input, LexNow) = "done"
    /\ SetLex(lex_iter(input, LexNow))
    /\ UNCHANGED <<input, pc, pos, stack, ret, result>>

LexNext ==
    \/ EatWhitespace
    \/ LexString
    \/ LexNumber
    \/ LexBoolean
    \/ LexNull
    \/ LexPunct
    \/ LexError
    \/ LexDone

----------------------------------------------------------------------------
(* Values (parser.rs, enum Value).  An Object's HashMap is a function from *)
(* its keys to their values.                                               *)

VNull == [tag |-> "Null"]
VBoolean(b) == [tag |-> "Boolean", b |-> b]
VNumber(n) == [tag |-> "Number", n |-> n]
VString(s) == [tag |-> "String", s |-> s]
VList(items) == [tag |-> "List", items |-> items]
VObject(hm) == [tag |-> "Object", hm |-> hm]

\* HashMap::new() and HashMap::insert: the last write of a key wins
EmptyMap == [k \in {} |-> VNull]
insert(hm, k, v) == [x \in (DOMAIN hm) \cup {k} |-> IF x = k THEN v ELSE hm[x]]

\* Result<Option<Value>, Error>, and Pending while parse() has not returned
NoResult == [r |-> "Pending"]
OkNone == [r |-> "OkNone"]
OkSome(v) == [r |-> "OkSome", v |-> v]
ErrLex(e) == [r |-> "Err", e |-> [kind |-> "LexError", le |-> e]]
ErrParse(text) == [r |-> "Err", e |-> [kind |-> "ParseError", text |-> text]]
\* a message that ends in the {:?} of an Option<&Token>
ErrParseAt(text, opt) ==
    [r |-> "Err", e |-> [kind |-> "ParseError", text |-> text, arg |-> opt]]

EndOfInput == "unexpected end of input while parsing list"
InvalidKey == "invalid key value"
ExpectedColon == "expected ':', got"
UnexpectedToken == "unexpected token"

----------------------------------------------------------------------------
(* The parser (parser.rs, Parser::parse and Parser::parse_value).  The     *)
(* recursion of parse_value is a stack of frames, one for each list or     *)
(* object being built; pos is the number of tokens the iterator has given  *)
(* out; ret is the value the last call of parse_value returned.            *)

ListFrame == [kind |-> "list", list |-> <<>>, hm |-> EmptyMap, key |-> <<>>, phase |-> "elem"]
ObjectFrame == [kind |-> "object", list |-> <<>>, hm |-> EmptyMap, key |-> <<>>, phase |-> "key"]

ParseState(c, p, s, v, res) ==
    [pc |-> c, pos |-> p, stack |-> s, ret |-> v, result |-> res]

\* tokens.peek() / tokens.next() as an Option
OptTok(toks, p) ==
    IF p < Len(toks) THEN [some |-> TRUE, tok |-> toks[p + 1]] ELSE [some |-> FALSE]

PeekIs(toks, p, c) == p < Len(toks) /\ toks[p + 1] = TPunct(c)

\* the position after tokens.next()
Advance(toks, p) == IF p < Len(toks) THEN p + 1 ELSE p

Top(ps) == ps.stack[Len(ps.stack)]
Pop(ps) == SubSeq(ps.stack, 1, Len(ps.stack) - 1)
SetTop(ps, f) == [ps.stack EXCEPT ![Len(ps.stack)] = f]

Fail(ps, res) == [ps EXCEPT !.pc = "done", !.result = res]

IsScalar(tok) == tok.t \in {"Null", "Bool", "Number", "String"}

ScalarValue(tok) ==
    CASE tok.t = "Null" -> VNull
      [] tok.t = "Bool" -> VBoolean(tok.b)
      [] tok.t = "Number" -> VNumber(tok.n)
      [] tok.t = "String" -> VString(tok.s)

\* parse(), were it not to check for an empty token sequence
parse_begin_unchecked(toks) == ParseState("value", 0, <<>>, VNull, NoResult)

\* parse(), after lex() has returned Ok(tokens)
parse_begin(toks) ==
    IF toks = <<>>
    THEN ParseState("done", 0, <<>>, VNull, OkNone)
    ELSE ParseState("value", 0, <<>>, VNull, NoResult)

\* parse_value: match tokens.next()
parse_value(toks, ps) ==
    LET t == OptTok(toks, ps.pos)
        p == Advance(toks, ps.pos)
    IN  IF t.some /\ IsScalar(t.tok)
        THEN [ps EXCEPT !.pos = p, !.ret = ScalarValue(t.tok), !.pc = "return"]
        ELSE IF t.some /\ t.tok = TPunct("[")
        THEN [ps EXCEPT !.pos = p, !.stack = Append(@, ListFrame), !.pc = "list_head"]
        ELSE IF t.some /\ t.tok = TPunct("{")
        THEN [ps EXCEPT !.pos = p, !.stack = Append(@, ObjectFrame), !.pc = "object_head"]
        ELSE Fail([ps EXCEPT !.pos = p], ErrParseAt(UnexpectedToken, t))

\* parse(), were it to reject tokens after the top-level value
return_top_strict(toks, ps) ==
    IF ps.pos < Len(toks)
    THEN Fail(ps, ErrParseAt(UnexpectedToken, OptTok(toks, ps.pos)))
    ELSE Fail(ps, OkSome(ps.ret))

\* parse(): the top-level parse_value has returned
return_top(toks, ps) == Fail(ps, OkSome(ps.ret))

\* the list loop: the check for "]" before an element
list_head(toks, ps) ==
    IF PeekIs(toks, ps.pos, "]")
    THEN [ps EXCEPT !.pos = @ + 1, !.ret = VList(Top(ps).list),
                    !.stack = Pop(ps), !.pc = "return"]
    ELSE [ps EXCEPT !.pc = "value"]

\* list.push(value), were it to put the value in front
list_push_front(toks, ps) ==
    [ps EXCEPT !.stack = SetTop(ps, [Top(ps) EXCEPT !.list = <<ps.ret>> \o @]),
               !.pc = "list_tail"]

\* the list loop: list.push(value)
list_push(toks, ps) ==
    [ps EXCEPT !.stack = SetTop(ps, [Top(ps) EXCEPT !.list = Append(@, ps.ret)]),
               !.pc = "list_tail"]

\* the match after an element, were the end of the tokens to close the list
list_tail_closing(toks, ps) ==
    IF PeekIs(toks, ps.pos, ",")
    THEN [ps EXCEPT !.pos = @ + 1, !.pc = "list_head"]
    ELSE IF PeekIs(toks, ps.pos, "]") \/ ps.pos >= Len(toks)
    THEN [ps EXCEPT !.pos = Advance(toks, @), !.ret = VList(Top(ps).list),
                    !.stack = Pop(ps), !.pc = "return"]
    ELSE [ps EXCEPT !.pc = "list_head"]

\* the list loop: the match on tokens.peek() after an element
list_tail(toks, ps) ==
    IF PeekIs(toks, ps.pos, ",")
    THEN [ps EXCEPT !.pos = @ + 1, !.pc = "list_head"]
    ELSE IF PeekIs(toks, ps.pos, "]")
    THEN [ps EXCEPT !.pos = @ + 1, !.ret = VList(Top(ps).list),
                    !.stack = Pop(ps), !.pc = "return"]
    ELSE IF ps.pos < Len(toks)
    THEN [ps EXCEPT !.pc = "list_head"]
    ELSE Fail(ps, ErrParse(EndOfInput))

\* the object loop: the check for "}" before a member
object_head(toks, ps) ==
    IF PeekIs(toks, ps.pos, "}")
    THEN [ps EXCEPT !.pos = @ + 1, !.ret = VObject(Top(ps).hm),
                    !.stack = Pop(ps), !.pc = "return"]
    ELSE [ps EXCEPT !.stack = SetTop(ps, [Top(ps) EXCEPT !.phase = "key"]),
                    !.pc = "value"]

\* the key check, were any value taken as a key
object_key_any(toks, ps) ==
    IF PeekIs(toks, ps.pos, ":")
    THEN [ps EXCEPT !.pos = @ + 1,
                    !.stack = SetTop(ps, [Top(ps) EXCEPT
                                 !.key = IF ps.ret.tag = "String" THEN ps.ret.s ELSE <<>>,
                                 !.phase = "val"]),
                    !.pc = "value"]
    ELSE Fail([ps EXCEPT !.pos = Advance(toks, @)],
              ErrParseAt(ExpectedColon, OptTok(toks, ps.pos)))

\* the object loop: the key must be a String and a ":" must follow
object_key(toks, ps) ==
    IF ps.ret.tag # "String"
    THEN Fail(ps, ErrParse(InvalidKey))
    ELSE IF PeekIs(toks, ps.pos, ":")
    THEN [ps EXCEPT !.pos = @ + 1,
                    !.stack = SetTop(ps, [Top(ps) EXCEPT !.key = ps.ret.s,
                                                         !.phase = "val"]),
                    !.pc = "value"]
    ELSE Fail([ps EXCEPT !.pos = Advance(toks, @)],
              ErrParseAt(ExpectedColon, OptTok(toks, ps.pos)))

\* the object loop: hm.insert(key, value)
object_insert(toks, ps) ==
    [ps EXCEPT !.stack = SetTop(ps, [Top(ps) EXCEPT
                                       !.hm = insert(@, Top(ps).key, ps.ret)]),
               !.pc = "object_tail"]

\* the object loop: the match on tokens.peek() after a member
object_tail(toks, ps) ==
    IF PeekIs(toks, ps.pos, ",")
    THEN [ps EXCEPT !.pos = @ + 1, !.pc = "object_head"]
    ELSE IF PeekIs(toks, ps.pos, "}")
    THEN [ps EXCEPT !.pos = @ + 1, !.ret = VObject(Top(ps).hm),
                    !.stack = Pop(ps), !.pc = "return"]
    ELSE IF ps.pos < Len(toks)
    THEN [ps EXCEPT !.pc = "object_head"]
    ELSE Fail(ps, ErrParse(EndOfInput))

\* where control is: a pc, and for "return" the caller the value returns to
At(ps) ==
    IF ps.pc # "return" THEN ps.pc
    ELSE IF ps.stack = <<>> THEN "return_top"
    ELSE IF Top(ps).kind = "list" THEN "list_push"
    ELSE IF Top(ps).phase = "key" THEN "object_key"
    ELSE "object_insert"

parse_step(toks, ps) ==
    LET a == At(ps) IN
    CASE a = "value" -> parse_value(toks, ps)
      [] a = "return_top" -> return_top(toks, ps)
      [] a = "list_head" -> list_head(toks, ps)
      [] a = "list_push" -> list_push(toks, ps)
      [] a = "list_tail" -> list_tail(toks, ps)
      [] a = "object_head" -> object_head(toks, ps)
      [] a = "object_key" -> object_key(toks, ps)
      [] a = "object_insert" -> object_insert(toks, ps)
      [] a = "object_tail" -> object_tail(toks, ps)

\* parse() on a token sequence, to its return (each step is evaluated once,
\* as the one element of a set)
RECURSIVE parse_run(_, _)
parse_run(toks, ps) ==
    IF ps.pc = "done" THEN ps
    ELSE CHOOSE r \in {parse_run(toks, nx) : nx \in {parse_step(toks, ps)}} : TRUE

parse(toks) == parse_run(toks, parse_begin(toks)).result

ParseNow == ParseState(pc, pos, stack, ret, result)

SetParse(ps) ==
    /\ pc' = ps.pc
    /\ pos' = ps.pos
    /\ stack' = ps.stack
    /\ ret' = ps.ret
    /\ result' = ps.result

\* parse(): lex() has returned Ok(tokens)
ParseStart ==
    /\ pc = "lex" /\ lexed = "ok"
    /\ SetParse(parse_begin(tokens))
    /\ UNCHANGED <<input, index, line, col, tokens, lexed, lexErr>>

\* parse(): lex() has returned Err, which the ? operator returns
LexFailed ==
    /\ pc = "lex" /\ lexed = "err"
    /\ SetParse(Fail(ParseNow, ErrLex(lexErr)))
    /\ UNCHANGED <<input, index, line, col, tokens, lexed, lexErr>>

ParseValue ==
    /\ At(ParseNow) = "value"
    /\ SetParse(parse_value(tokens, ParseNow))
    /\ UNCHANGED <<input, index, line, col, tokens, lexed, lexErr>>

ReturnTop ==
    /\ At(ParseNow) = "return_top"
    /\ SetParse(return_top(tokens, ParseNow))
    /\ UNCHANGED <<input, index, line, col, tokens, lexed, lexErr>>

ListHead ==
    /\ At(ParseNow) = "list_head"
    /\ SetParse(list_head(tokens, ParseNow))
    /\ UNCHANGED <<input, index, line, col, tokens, lexed, lexErr>>

ListPush ==
    /\ At(ParseNow) = "list_push"
    /\ SetParse(list_push(tokens, ParseNow))
    /\ UNCHANGED <<input, index, line, col, tokens, lexed, lexErr>>

ListTail ==
    /\ At(ParseNow) = "list_tail"
    /\ SetParse(list_tail(tokens, ParseNow))
    /\ UNCHANGED <<input, index, line, col, tokens, lexed, lexErr>>

ObjectHead ==
    /\ At(ParseNow) = "object_head"
    /\ SetParse(object_head(tokens, ParseNow))
    /\ UNCHANGED <<input, index, line, col, tokens, lexed, lexErr>>

ObjectKey ==
    /\ At(ParseNow) = "object_key"
    /\ SetParse(object_key(tokens, ParseNow))
    /\ UNCHANGED <<input, index, line, col, tokens, lexed, lexErr>>

ObjectInsert ==
    /\ At(ParseNow) = "object_insert"
    /\ SetParse(object_insert(tokens, ParseNow))
    /\ UNCHANGED <<input, index, line, col, tokens, lexed, lexErr>>

ObjectTail ==
    /\ At(ParseNow) = "object_tail"
    /\ SetParse(object_tail(tokens, ParseNow))
    /\ UNCHANGED <<input, index, line, col, tokens, lexed, lexErr>>

ParseNext ==
    \/ ParseStart
    \/ ParseValue
    \/ ReturnTop
    \/ ListHead
    \/ ListPush
    \/ ListTail
    \/ ObjectHead
    \/ ObjectKey
    \/ ObjectInsert
    \/ ObjectTail

Next == LexNext \/ LexFailed \/ ParseNext

----------------------------------------------------------------------------
(* Input texts: the concatenations of at most n pieces.  Token sequences:  *)
(* the sequences of at most n tokens, each written as the text Render      *)
(* gives and lexed by lex().                                               *)

RECURSIVE Flatten(_)
Flatten(ps) == IF ps = <<>> THEN <<>> ELSE Head(ps) \o Flatten(Tail(ps))

SeqsUpTo(S, n) == UNION {[1..k -> S] : k \in 0..n}

Texts(P, n) == {Flatten(ps) : ps \in SeqsUpTo(P, n)}

\* the pieces of the texts of SpecLex
LexPieces ==
    {<<" ">>, <<"\n">>, <<"\"">>, <<"\\">>, <<"1">>, <<"@">>, <<EAcute>>,
     <<"]">>, TrueLit, NullLit}

\* the pieces of the texts of Spec
Pieces ==
    {<<" ">>, <<"\t">>, <<"\r">>, <<"\n">>, <<"1">>, <<"-">>, <<".">>, <<"e">>,
     <<"{", "\"", "a", "\"", ":">>, <<"[">>, TrueLit, NullLit, <<"@">>}

\* the tokens of the token sequences of SpecParse
TokAlphabet ==
    {TPunct("["), TPunct("]"), TPunct("{"), TPunct("}"), TPunct(":"), TPunct(","),
     TString(<<"a">>), TNumber(from_str(<<"1">>).n), TBool(TRUE), TNull}

RECURSIVE DecimalText(_)
DecimalText(m) ==
    LET d == <<"0", "1", "2", "3", "4", "5", "6", "7", "8", "9">>[(m % 10) + 1] IN
    IF m < 10 THEN <<d>> ELSE Append(DecimalText(m \div 10), d)

\* a text that lexes to the token: a String without quote or backslash
\* between quotes, a natural number in decimal digits
Lexeme(tok) ==
    CASE tok.t = "Punct" -> <<tok.c>>
      [] tok.t = "String" -> <<"\"">> \o tok.s \o <<"\"">>
      [] tok.t = "Number" -> DecimalText(tok.n.m)
      [] tok.t = "Bool" -> IF tok.b THEN TrueLit ELSE FalseLit
      [] tok.t = "Null" -> NullLit

\* the tokens written one after the other, a space after each
Render(toks) == Flatten([i \in 1..Len(toks) |-> Lexeme(toks[i]) \o <<" ">>])

ParseIdle ==
    /\ pc = "lex"
    /\ pos = 0
    /\ stack = <<>>
    /\ ret = VNull
    /\ result = NoResult

LexFresh ==
    /\ index = 0 /\ line = 0 /\ col = 0 /\ tokens = <<>>
    /\ lexed = "running" /\ lexErr = NoLexErr

\* Lexer::new().lex(input) alone
InitLex ==
    /\ input \in Texts(LexPieces, MaxLexPieces)
    /\ LexFresh
    /\ ParseIdle

\* Parser::new().parse(input)
Init ==
    /\ input \in Texts(Pieces, MaxPieces)
    /\ LexFresh
    /\ ParseIdle

\* parse() at the return of lex(), for every token sequence of the bound: the
\* text is Render(tokens), which lex() has read to its end
InitParse ==
    /\ tokens \in SeqsUpTo(TokAlphabet, MaxToks)
    /\ input = Render(tokens)
    /\ index = ByteLen(input) /\ line = 0 /\ col = Len(input)
    /\ lexed = "ok" /\ lexErr = NoLexErr
    /\ ParseIdle

SpecLex == InitLex /\ [][LexNext]_vars

SpecParse == InitParse /\ [][ParseNext]_vars

Spec == Init /\ [][Next]_vars

\* the pieces of the texts of SpecLive: as Pieces, with a string quote and a
\* character of three bytes
LivePieces ==
    {<<" ">>, <<"\n">>, <<"1">>, <<"-">>, <<"{", "\"", "a", "\"", ":">>, <<"[">>,
     <<"]">>, TrueLit, NullLit, <<"@">>, <<"\"">>, <<Euro>>}

\* Parser::new().parse(input), on texts with a character of several bytes
InitLive ==
    /\ input \in Texts(LivePieces, MaxLivePieces)
    /\ LexFresh
    /\ ParseIdle

\* parse() is one sequential call: while a statement is left to run, it runs
SpecLive == InitLive /\ [][Next]_vars /\ WF_vars(Next)

----------------------------------------------------------------------------
(* The grammar of the input format, on tokens:                             *)
(*   value  := object | list | string | number | boolean | null           *)
(*   object := "{" [ member ("," member)* ] "}"    member := string ":" value *)
(*   list   := "[" [ value ("," value)* ] "]"                              *)
(* GValue(toks, p) reads one value from position p: it is "ok" with the    *)
(* tree the grammar denotes and the position after it, "eof" when the      *)
(* tokens end where the grammar wants another one (exp says which: a value *)
(* or key, a colon, or a separator or closer), and "bad" otherwise.        *)

GOk(v, p) == [st |-> "ok", v |-> v, p |-> p, exp |-> ""]
GEof(exp) == [st |-> "eof", v |-> [tag |-> "Null"], p |-> 0, exp |-> exp]
GBad == [st |-> "bad", v |-> [tag |-> "Null"], p |-> 0, exp |-> ""]

GScalar(tok) ==
    CASE tok.t = "Null" -> [tag |-> "Null"]
      [] tok.t = "Bool" -> [tag |-> "Boolean", b |-> tok.b]
      [] tok.t = "Number" -> [tag |-> "Number", n |-> tok.n]
      [] tok.t = "String" -> [tag |-> "String", s |-> tok.s]

GIs(toks, p, c) == p < Len(toks) /\ toks[p + 1] = [t |-> "Punct", c |-> c]

\* what follows an element or member that ends at p
GSep(toks, p, close) ==
    IF p >= Len(toks) THEN "eof"
    ELSE IF GIs(toks, p, ",") THEN "more"
    ELSE IF GIs(toks, p, close) THEN "close"
    ELSE "bad"

GPut(hm, k, v) == [x \in (DOMAIN hm) \cup {k} |-> IF x = k THEN v ELSE hm[x]]

RECURSIVE GValue(_, _), GElems(_, _, _), GMembers(_, _, _)
GValue(toks, p) ==
    IF p >= Len(toks) THEN GEof("value")
    ELSE IF toks[p + 1].t # "Punct" THEN GOk(GScalar(toks[p + 1]), p + 1)
    ELSE IF GIs(toks, p, "[")
    THEN IF GIs(toks, p + 1, "]")
         THEN GOk([tag |-> "List", items |-> <<>>], p + 2)
         ELSE GElems(toks, p + 1, <<>>)
    ELSE IF GIs(toks, p, "{")
    THEN IF GIs(toks, p + 1, "}")
         THEN GOk([tag |-> "Object", hm |-> [k \in {} |-> 0]], p + 2)
         ELSE GMembers(toks, p + 1, [k \in {} |-> 0])
    ELSE GBad

\* value ("," value)* "]" from p, after the elements acc
GElems(toks, p, acc) ==
    CHOOSE x \in
      { IF r.st # "ok" THEN r
        ELSE CASE GSep(toks, r.p, "]") = "eof" -> GEof("sep")
               [] GSep(toks, r.p, "]") = "more" ->
                    GElems(toks, r.p + 1, Append(acc, r.v))
               [] GSep(toks, r.p, "]") = "close" ->
                    GOk([tag |-> "List", items |-> Append(acc, r.v)], r.p + 1)
               [] OTHER -> GBad
        : r \in {GValue(toks, p)} } : TRUE

\* member ("," member)* "}" from p, after the members hm
GMembers(toks, p, hm) ==
    IF p >= Len(toks) THEN GEof("value")
    ELSE IF toks[p + 1].t # "String" THEN GBad
    ELSE IF p + 1 >= Len(toks) THEN GEof("colon")
    ELSE IF ~GIs(toks, p + 1, ":") THEN GBad
    ELSE CHOOSE x \in
      { IF r.st # "ok" THEN r
        ELSE CASE GSep(toks, r.p, "}") = "eof" -> GEof("sep")
               [] GSep(toks, r.p, "}") = "more" ->
                    GMembers(toks, r.p + 1, GPut(hm, toks[p + 1].s, r.v))
               [] GSep(toks, r.p, "}") = "close" ->
                    GOk([tag |-> "Object", hm |-> GPut(hm, toks[p + 1].s, r.v)],
                        r.p + 1)
               [] OTHER -> GBad
        : r \in {GValue(toks, p + 2)} } : TRUE

\* the whole token sequence is one value of the grammar
Conforms(toks) == GValue(toks, 0).st = "ok" /\ GValue(toks, 0).p = Len(toks)

IsOpener(tok) == tok = [t |-> "Punct", c |-> "["] \/ tok = [t |-> "Punct", c |-> "{"]
IsCloser(tok) == tok = [t |-> "Punct", c |-> "]"] \/ tok = [t |-> "Punct", c |-> "}"]

\* the number of brackets open after the first k tokens
RECURSIVE Depth(_, _)
Depth(toks, k) ==
    IF k = 0 THEN 0
    ELSE Depth(toks, k - 1) + (IF IsOpener(toks[k]) THEN 1
                               ELSE IF IsCloser(toks[k]) THEN 0 - 1 ELSE 0)

\* the first token opens a list or an object that no token closes
OpenAtEnd(toks) ==
    /\ toks # <<>>
    /\ IsOpener(toks[1])
    /\ \A k \in 1..Len(toks) : Depth(toks, k) > 0

NoneTok == [some |-> FALSE]

----------------------------------------------------------------------------
(* C1.  A token sequence that conforms to the grammar parses to            *)
(* Ok(Some(v)) with v the tree the grammar denotes: every scalar token as  *)
(* its Value variant, a List with its elements in source order, an Object  *)
(* mapping each key to the value after its colon, nested to any depth the  *)
(* bound allows; and parse() returns nothing else on the way.              *)
C1_ConformingParses ==
    Conforms(tokens) =>
        /\ pc = "done" => result = [r |-> "OkSome", v |-> GValue(tokens, 0).v]
        /\ pc # "done" => result = [r |-> "Pending"]

\* a list in a list, parsed
C1_Witness ==
    /\ pc = "done"
    /\ Conforms(tokens)
    /\ result.r = "OkSome"
    /\ result.v.tag = "List"
    /\ Len(result.v.items) = 1
    /\ result.v.items[1].tag = "List"
    /\ Len(result.v.items[1].items) = 1

(* C4.  parse() returns Ok(Some(_)) for a list or an object only if the    *)
(* tokens it has read match the grammar of lists and objects: a comma or   *)
(* the closer after every element or member, an element or member after    *)
(* every comma.                                                            *)
C4_OnlyGrammarAccepted ==
    (pc = "done" /\ result.r = "OkSome" /\ result.v.tag \in {"List", "Object"})
        => (GValue(tokens, 0).st = "ok" /\ GValue(tokens, 0).p = pos)

(* C5, as claimed.  When the first token opens a list or an object and the *)
(* tokens end before its closer, parse() returns the ParseError            *)
(* "unexpected end of input while parsing list".                           *)
C5_AlwaysEndOfInputMessage ==
    (pc = "done" /\ OpenAtEnd(tokens))
        => result = [r |-> "Err", e |-> [kind |-> "ParseError",
                                          text |-> "unexpected end of input while parsing list"]]

(* C5, amended.  When the first token opens a list or an object and the    *)
(* tokens end before its closer, parse() returns a ParseError and never    *)
(* Ok.  When the tokens are a prefix of a conforming list or object the    *)
(* message tells where they end: "unexpected end of input while parsing    *)
(* list" after a complete element or member, "unexpected token 'None'"     *)
(* where a value or a key is expected, "expected ':', got 'None'" after a  *)
(* key.                                                                    *)
C5_UnclosedIsParseError ==
    (pc = "done" /\ OpenAtEnd(tokens)) =>
        /\ result.r = "Err"
        /\ result.e.kind = "ParseError"
        /\ GValue(tokens, 0).st = "eof" =>
             result.e =
                CASE GValue(tokens, 0).exp = "sep" ->
                        [kind |-> "ParseError",
                         text |-> "unexpected end of input while parsing list"]
                  [] GValue(tokens, 0).exp = "value" ->
                        [kind |-> "ParseError", text |-> "unexpected token",
                         arg |-> NoneTok]
                  [] GValue(tokens, 0).exp = "colon" ->
                        [kind |-> "ParseError", text |-> "expected ':', got",
                         arg |-> NoneTok]

\* "[1," has been parsed to its error
C5_Witness ==
    /\ pc = "done"
    /\ Len(tokens) = 3
    /\ tokens[1] = [t |-> "Punct", c |-> "["]
    /\ tokens[3] = [t |-> "Punct", c |-> ","]
    /\ GValue(tokens, 0).st = "eof"
    /\ result.r = "Err"
    /\ result.e.text = "unexpected token"

(* C7.  Trailing tokens are ignored: when a prefix t of the tokens parses  *)
(* to Ok(Some(v)) on its own, parse() of the whole sequence returns        *)
(* Ok(Some(v)) too, whatever follows t.                                    *)
C7_TrailingIgnored ==
    pc = "done" =>
        \A k \in 1..Len(tokens) :
            parse(SubSeq(tokens, 1, k)).r = "OkSome"
                => result = parse(SubSeq(tokens, 1, k))

\* a value has been returned with tokens left unread
C7_Witness ==
    /\ pc = "done"
    /\ result.r = "OkSome"
    /\ result.v.tag = "List"
    /\ pos < Len(tokens)
    /\ parse(SubSeq(tokens, 1, pos)) = result

\* every key of every Object in v is the content of a String token of toks
RECURSIVE KeysAreStrings(_, _)
KeysAreStrings(v, toks) ==
    CASE v.tag = "Object" ->
            \A k \in DOMAIN v.hm :
                /\ \E i \in 1..Len(toks) : toks[i] = [t |-> "String", s |-> k]
                /\ KeysAreStrings(v.hm[k], toks)
      [] v.tag = "List" ->
            \A i \in 1..Len(v.items) : KeysAreStrings(v.items[i], toks)
      [] OTHER -> TRUE

(* C8.  Every key of every Object parse() returns comes from a String      *)
(* token, and a step that finds the value parsed at a key position not to  *)
(* be a String ends parse() with ParseError("invalid key value").          *)
C8_KeysAreStrings ==
    [][ /\ (At(ParseNow) = "object_key" /\ ret.tag # "String")
            => (pc' = "done"
                /\ result' = [r |-> "Err",
                              e |-> [kind |-> "ParseError", text |-> "invalid key value"]])
        /\ result'.r = "OkSome" => KeysAreStrings(result'.v, tokens)
      ]_vars

\* a list at a key position has been rejected
C8_Witness ==
    /\ pc = "done"
    /\ Len(tokens) >= 3
    /\ tokens[1] = [t |-> "Punct", c |-> "{"]
    /\ tokens[2] = [t |-> "Punct", c |-> "["]
    /\ result = [r |-> "Err", e |-> [kind |-> "ParseError", text |-> "invalid key value"]]

----------------------------------------------------------------------------
(* Claims about the lexer and about parse() on texts.                      *)

AllWhitespace(s) == \A i \in 1..Len(s) : s[i] \in {" ", "\t", "\r", "\n"}

(* C2.  For a text that is empty or all spaces, tabs, carriage returns and *)
(* newlines, lex() returns the empty token sequence and parse() returns    *)
(* Ok(None): neither ends in an error or a panic.                          *)
C2_WhitespaceIsNoValue ==
    AllWhitespace(input) =>
        /\ lexed \in {"running", "ok"}
        /\ tokens = <<>>
        /\ result \in {[r |-> "Pending"], [r |-> "OkNone"]}
        /\ pc = "done" => result = [r |-> "OkNone"]
        /\ (lexed = "ok" /\ pc # "done") => ENABLED ParseStart

\* a text of three whitespace characters, a newline among them, is no value
C2_Witness ==
    /\ AllWhitespace(input)
    /\ Len(input) = 3
    /\ \E i \in 1..Len(input) : input[i] = "\n"
    /\ \E i \in 1..Len(input) : input[i] = "\r"
    /\ pc = "done"
    /\ result = [r |-> "OkNone"]

\* the source line the character at index is in, its number and the
\* character's column, all counted from the text itself
ErrChar == CharIdx(input, index) + 1
NewlinesBefore(k) == {i \in 1..(k - 1) : input[i] = "\n"}
LineStart(k) == IF NewlinesBefore(k) = {} THEN 0
                ELSE CHOOSE i \in NewlinesBefore(k) : \A j \in NewlinesBefore(k) : j <= i
NewlinesFrom(k) == {i \in k..Len(input) : input[i] = "\n"}
LineEnd(k) == IF NewlinesFrom(k) = {} THEN Len(input) + 1
              ELSE CHOOSE i \in NewlinesFrom(k) : \A j \in NewlinesFrom(k) : i <= j

(* C3.  The LexError lex() returns at an unrecognized character carries    *)
(* that character's place: line is the 0-based number of its source line,  *)
(* col its 0-based column in that line, text the text of that line; for    *)
(* the text "@" line 0 and column 0.                                       *)
C3_ErrorLocation ==
    lexed = "err" =>
        /\ lexErr.line = Cardinality(NewlinesBefore(ErrChar))
        /\ lexErr.col = ErrChar - 1 - LineStart(ErrChar)
        /\ lexErr.text = SubSeq(input, LineStart(ErrChar) + 1, LineEnd(ErrChar) - 1)

(* C6.  A step of lex() that finds, where a token starts, a run of digits  *)
(* and - + . e E that does not decode ends lex() in the panic: no token    *)
(* sequence and no LexError is returned, parse() returns nothing and no    *)
(* step is taken after the panic.  Every Number token a step pushes is the *)
(* decoded value of its run.                                               *)
C6_MalformedNumberPanics ==
    [][ /\ (lexed = "running" /\ Branch(input, LexNow) = "number"
              /\ ~from_str(NumberRun(input, index)).ok)
            => (lexed' = "panic" /\ tokens' = tokens)
        /\ lexed' = "panic" => (pc' = "lex" /\ result' = [r |-> "Pending"])
        /\ lexed # "panic"
        /\ (Len(tokens') > Len(tokens) /\ tokens'[Len(tokens')].t = "Number")
            => /\ from_str(NumberRun(input, index)).ok
               /\ tokens'[Len(tokens')].n = from_str(NumberRun(input, index)).n
               /\ index' = index + Len(NumberRun(input, index))
      ]_vars

\* the run "1-" after a token has ended lex() in the panic
C6_Witness ==
    /\ lexed = "panic"
    /\ Len(input) = 3
    /\ tokens = <<[t |-> "Punct", c |-> "["]>>
    /\ SubSeq(input, 2, 3) = <<"1", "-">>
    /\ result = [r |-> "Pending"]

\* whether the character at position i of a literal (its opening quote at
\* position 1) is escaped: a backslash that is not itself escaped precedes it
RECURSIVE EscapedAt(_, _)
EscapedAt(chars, i) ==
    i > 2 /\ chars[i - 1] = "\\" /\ ~EscapedAt(chars, i - 1)

ClosingQuotes(chars) ==
    {i \in 2..Len(chars) : chars[i] = "\"" /\ ~EscapedAt(chars, i)}

\* the position of the first double quote that no escape precedes, or the
\* position after the text when there is none
Closing(chars) ==
    IF ClosingQuotes(chars) = {} THEN Len(chars) + 1
    ELSE CHOOSE i \in ClosingQuotes(chars) : \A j \in ClosingQuotes(chars) : i <= j

(* C9.  A step of lex() at a double quote pushes exactly one token, the    *)
(* String of the characters between that quote and the first double quote  *)
(* that no active escape precedes, backslashes and escaped characters      *)
(* copied as they are.                                                     *)
C9_StringLiteral ==
    [][ (lexed = "running" /\ Branch(input, LexNow) = "string")
          => /\ lexed' = "running"
             /\ tokens' = Append(tokens,
                    [t |-> "String",
                     s |-> SubSeq(CharsFrom(input, index), 2,
                                  Closing(CharsFrom(input, index)) - 1)])
      ]_vars

\* the literal "\"" has been lexed to the String of a backslash and a quote
C9_Witness ==
    /\ input = <<"\"", "\\", "\"", "\"">>
    /\ lexed = "ok"
    /\ tokens = <<[t |-> "String", s |-> <<"\\", "\"">>]>>

(* C10.  While lex() runs and when it returns Ok, index is a byte offset   *)
(* of the text that lies on a character boundary and is at most the        *)
(* text's length, whatever the encoded width of the characters read.       *)
C10_IndexOnBoundary ==
    lexed \in {"running", "ok"} =>
        /\ index <= ByteLen(input)
        /\ IsCharBoundary(input, index)

\* the rank of a control point of parse_value within one turn of its loops:
\* a returned value is stored, then the tail looks at the separator, then the
\* head looks for the closer, then the next value is read
Rank(a) ==
    CASE a \in {"return_top", "list_push", "object_key", "object_insert"} -> 4
      [] a \in {"list_tail", "object_tail"} -> 3
      [] a \in {"list_head", "object_head"} -> 2
      [] a = "value" -> 1
      [] OTHER -> 0

\* what parse_value has left to do: the tokens not yet consumed, then the rank
Variant == (Len(tokens) - pos) * 5 + Rank(At(ParseNow))

\* parse() has come to an end: a result was returned, or the process panicked
Ended == pc = "done" \/ lexed = "panic"

\* this step is one turn of the loop of lex()
LexIteration == lexed = "running" /\ Branch(input, LexNow) # "done"

\* this step is a step of parse_value
ParseIteration == pc \notin {"lex", "done"}

(* C11 (the part that holds).  On every text parse() comes to an end, and   *)
(* it does so because every turn of the loop of lex() moves index forward   *)
(* or stops lexing, and every step of parse_value returns or lowers         *)
(* Variant: no turn of the list or object loop leaves pos where it was,     *)
(* the turns through the no-action branch of the tails included.            *)
C11_Terminates == <>Ended

C11_EveryStepAdvances ==
    [][/\ LexIteration => (index' > index \/ lexed' \in {"err", "panic"})
       /\ ParseIteration => (pc' = "done" \/ Variant' < Variant)]_vars

\* the no-action branch of a list tail has been taken and parse() has ended
C11_NoActionBranchTaken ==
    /\ pc = "done"
    /\ Len(tokens) = 3
    /\ tokens[1] = [t |-> "Punct", c |-> "["]
    /\ IsScalar(tokens[2]) /\ IsScalar(tokens[3])
    /\ pos = 3

(* C11.  parse() ends in a returned result or in the panic of the number    *)
(* decode and in nothing else: every turn of the loop of lex() consumes at  *)
(* least one character or stops with a LexError or with the panic of        *)
(* lex_number, and every step of the list and object loops consumes a       *)
(* token or returns.                                                        *)
C11_EndsInResultOrNumberPanic ==
    [][/\ LexIteration =>
            \/ index' > index /\ lexed' = "running"
            \/ lexed' = "err"
            \/ lexed' = "panic" /\ Branch(input, LexNow) = "number"
       /\ ParseIteration => (pc' = "done" \/ Variant' < Variant)]_vars

====
